---------------------------- MODULE Spec2Model ----------------------------
(*************************************************************************)
(* A model of the daily task planner: the time-block arithmetic, the     *)
(* Schedule grid with its assign() checks, the behavioural metrics sweep *)
(* (src/model.py) and the CP-SAT formulation with its decoder            *)
(* (src/optimizer.py).                                                   *)
(*                                                                       *)
(* Numbers that are floats in the source are scaled integers here:       *)
(* speeds, rates, costs and efforts are in thousandths; a progress value *)
(* is a product speed * factor and is in millionths.                     *)
(*************************************************************************)
EXTENDS Integers, Sequences, FiniteSets, TLC

VARIABLES
    hour, minute, block_idx, time_str, tpc,   \* one time_to_block / block_to_time round trip
    employees, tasks,                         \* the Employee and Task lists of the run
    grid,                                     \* Schedule.grid
    raised,                                   \* what the last call raised ("none": it returned)
    mpc, m_e, m_b,                            \* calculate_metrics: position of the two loops
    consecutive_blocks, last_task_id,         \* calculate_metrics: running state
    metrics,                                  \* the ScheduleMetrics being built
    switch_charges,                           \* history: employee id -> times lines 159-162 charged switch_cost
    spc, status, x,                           \* TaskOptimizer.solve: position, solver status, solved x
    start,                                    \* TaskOptimizer.solve: the <<e, t, s>> whose start variable is 1
    metrics_arg, errors, vpc                  \* validate_overall: the metrics argument, the result, position

timeVars == <<hour, minute, block_idx, time_str, tpc>>
dataVars == <<employees, tasks>>
metVars  == <<mpc, m_e, m_b, consecutive_blocks, last_task_id, metrics, switch_charges>>
solveVars == <<spc, status, x, start>>
valVars  == <<metrics_arg, errors, vpc>>
vars     == <<timeVars, dataVars, grid, raised, metVars, solveVars, valVars>>

-----------------------------------------------------------------------------
(* Time constants and helpers: src/model.py 5-39 *)

START_HOUR == 6
PHYSICAL_END_HOUR == 26
BLOCKS_PER_HOUR == 4
TOTAL_BLOCKS == (PHYSICAL_END_HOUR - START_HOUR) * BLOCKS_PER_HOUR

\* effective_hour of time_to_block: hours before START_HOUR are the next day
effective_hour(h) == IF h < START_HOUR THEN h + 24 ELSE h

\* the window test of time_to_block, whose branch is `pass`
in_window(h) == START_HOUR <= effective_hour(h) /\ effective_hour(h) < PHYSICAL_END_HOUR

\* time_to_block returns a block for every input: nothing is raised
time_to_block(h, m) ==
    LET relative_hour == effective_hour(h) - START_HOUR
    IN  [raised |-> "none", block |-> relative_hour * BLOCKS_PER_HOUR + (m \div 15)]

\* f"{n:02d}" for 0 <= n
Pad2(n) == IF n < 10 THEN "0" \o ToString(n) ELSE ToString(n)

\* f"{hour:02d}:{minute:02d}"
FormatTime(h, m) == Pad2(h) \o ":" \o Pad2(m)

block_to_time_no_wrap(b) ==
    LET absolute_minutes == (START_HOUR * 60) + b * 15
    IN  FormatTime(absolute_minutes \div 60, absolute_minutes % 60)

block_to_time(b) ==
    LET total_minutes == b * 15
        absolute_minutes == (START_HOUR * 60) + total_minutes
    IN  FormatTime((absolute_minutes \div 60) % 24, absolute_minutes % 60)

-----------------------------------------------------------------------------
(* Data structures: src/model.py 43-95 *)

NoneId == "None"              \* Python's None where a task id is expected

\* Shift.contains
contains(shift, b) == shift.start_block <= b /\ b < shift.end_block

\* Employee.is_available
is_available(emp, b) == \E i \in DOMAIN emp.shifts : contains(emp.shifts[i], b)

\* Employee.has_skill
has_skill(emp, skill) == IF skill = "" THEN TRUE ELSE skill \in emp.skills

\* Task.is_fixed
is_fixed(task) == ~task.demand_curve.is_none

Shift(s, e) == [start_block |-> s, end_block |-> e]

NoCurve == [is_none |-> TRUE, curve |-> <<>>]
Curve(c) == [is_none |-> FALSE, curve |-> c]

\* Schedule.__init__
EmptyGrid == [b \in 0..(TOTAL_BLOCKS - 1) |-> <<>>]

\* ScheduleMetrics()
EmptyMetrics == [total_cost |-> 0, task_progress |-> <<>>, employee_costs |-> <<>>]

-----------------------------------------------------------------------------
(* Bounds of the model *)

MaxHour == 29        \* hours handed to time_to_block are 0..MaxHour
MaxBlock == 5        \* the shifts of the metrics runs lie in 0..MaxBlock
MaxAssignBlock == 3  \* the shifts of the assign runs lie in 0..MaxAssignBlock

Hours == 0..MaxHour
Minutes == 0..59

-----------------------------------------------------------------------------
(* The round trip time_to_block -> block_to_time *)

TimeIdle ==
    /\ hour = 0 /\ minute = 0 /\ block_idx = 0 /\ time_str = "" /\ tpc = "off"

GridIdle ==
    /\ employees = <<>> /\ tasks = <<>> /\ grid = EmptyGrid

MetricsIdle ==
    /\ mpc = "idle" /\ m_e = 0 /\ m_b = 0
    /\ consecutive_blocks = 0 /\ last_task_id = NoneId
    /\ metrics = EmptyMetrics
    /\ switch_charges = <<>>

SolveIdle ==
    /\ spc = "off" /\ status = "" /\ x = <<>> /\ start = {}

ValidateIdle ==
    /\ metrics_arg = "None" /\ errors = <<>> /\ vpc = "off"

InitTime ==
    /\ hour \in Hours /\ minute \in Minutes
    /\ block_idx = 0 /\ time_str = "" /\ tpc = "args"
    /\ raised = "none"
    /\ GridIdle /\ MetricsIdle /\ SolveIdle /\ ValidateIdle

CallTimeToBlock ==
    /\ tpc = "args"
    /\ LET r == time_to_block(hour, minute)
       IN  /\ raised' = r.raised
           /\ block_idx' = r.block
           /\ tpc' = IF r.raised = "none" THEN "block" ELSE "failed"
    /\ UNCHANGED <<hour, minute, time_str, dataVars, grid, metVars, solveVars, valVars>>

CallBlockToTime ==
    /\ tpc = "block"
    /\ time_str' = block_to_time(block_idx)
    /\ tpc' = "str"
    /\ UNCHANGED <<hour, minute, block_idx, raised, dataVars, grid, metVars, solveVars, valVars>>

NextTime == CallTimeToBlock \/ CallBlockToTime

SpecTime == InitTime /\ [][NextTime]_vars

-----------------------------------------------------------------------------
(* Schedule.assign: src/model.py 111-127 *)

\* the employees and tasks of the grid runs, after src/demo_phase2.py 9-40:
\* a fast worker who tires, and a specialist on a split shift
E_FAST ==
    [id |-> "E_FAST", shifts |-> <<Shift(1, MaxBlock + 1)>>, skills |-> {},
     base_speed |-> 1500, switch_cost |-> 1000, fatigue_rate |-> 50,
     ideal_tasks |-> {}]

E_SPEC ==
    [id |-> "E_SPEC", shifts |-> <<Shift(1, 2), Shift(3, 4)>>, skills |-> {},
     base_speed |-> 1000, switch_cost |-> 2000, fatigue_rate |-> 950,
     ideal_tasks |-> {"T_HARD"}]

T_HARD == [id |-> "T_HARD", effort_required |-> 6000, skill_needed |-> "",
           demand_curve |-> NoCurve]

T_EASY == [id |-> "T_EASY", effort_required |-> 4000, skill_needed |-> "",
           demand_curve |-> NoCurve]

DemoEmployees == <<E_FAST, E_SPEC>>
DemoTasks == <<T_HARD, T_EASY>>

\* the employees and tasks of the assign runs, after src/main.py 9-34:
\* Ana on a split shift, Bob on one that overlaps both halves
E1 ==
    [id |-> "E1", shifts |-> <<Shift(0, 2), Shift(3, MaxAssignBlock + 1)>>, skills |-> {},
     base_speed |-> 1000, switch_cost |-> 1000, fatigue_rate |-> 0,
     ideal_tasks |-> {}]

E2 ==
    [id |-> "E2", shifts |-> <<Shift(1, 3)>>, skills |-> {},
     base_speed |-> 1000, switch_cost |-> 1000, fatigue_rate |-> 0,
     ideal_tasks |-> {}]

T1 == [id |-> "T1", effort_required |-> 8000, skill_needed |-> "",
       demand_curve |-> NoCurve]

T2 == [id |-> "T2", effort_required |-> 4000, skill_needed |-> "",
       demand_curve |-> NoCurve]

MainEmployees == <<E1, E2>>
MainTasks == <<T1, T2>>

\* the last block any shift of the run ends at
LastShiftEnd ==
    LET ends == UNION {{employees[i].shifts[j].end_block : j \in DOMAIN employees[i].shifts} :
                          i \in DOMAIN employees}
    IN  CHOOSE m \in ends : \A n \in ends : n <= m

\* the block indices handed to assign: in and around the shifts, and the
\* two ends of the grid
BlockInputs == ((0 - 1)..LastShiftEnd) \cup {TOTAL_BLOCKS - 1, TOTAL_BLOCKS}

\* self.grid[block_idx][employee.id] = task.id
grid_put(g, b, emp_id, task_id) == [g EXCEPT ![b] = (emp_id :> task_id) @@ @]

\* assign without the "already assigned" check of lines 119-121
assign_overwrite(g, b, emp, task) ==
    IF ~(0 <= b /\ b < TOTAL_BLOCKS)
    THEN [grid |-> g, raised |-> "ValueError: block out of range"]
    ELSE IF ~is_available(emp, b)
    THEN [grid |-> g, raised |-> "ValueError: not on shift"]
    ELSE IF \E emp_id \in DOMAIN g[b] : g[b][emp_id] = task.id
    THEN [grid |-> g, raised |-> "ValueError: task already worked"]
    ELSE [grid |-> grid_put(g, b, emp.id, task.id), raised |-> "none"]

\* assign without the availability check of lines 116-117
assign_off_shift(g, b, emp, task) ==
    IF ~(0 <= b /\ b < TOTAL_BLOCKS)
    THEN [grid |-> g, raised |-> "ValueError: block out of range"]
    ELSE IF emp.id \in DOMAIN g[b]
    THEN [grid |-> g, raised |-> "ValueError: already assigned"]
    ELSE IF \E emp_id \in DOMAIN g[b] : g[b][emp_id] = task.id
    THEN [grid |-> g, raised |-> "ValueError: task already worked"]
    ELSE [grid |-> grid_put(g, b, emp.id, task.id), raised |-> "none"]

\* assign that clears the block's row before it finds the task conflict
assign_partial(g, b, emp, task) ==
    IF ~(0 <= b /\ b < TOTAL_BLOCKS)
    THEN [grid |-> g, raised |-> "ValueError: block out of range"]
    ELSE IF ~is_available(emp, b)
    THEN [grid |-> g, raised |-> "ValueError: not on shift"]
    ELSE IF emp.id \in DOMAIN g[b]
    THEN [grid |-> g, raised |-> "ValueError: already assigned"]
    ELSE IF \E emp_id \in DOMAIN g[b] : g[b][emp_id] = task.id
    THEN [grid |-> [g EXCEPT ![b] = <<>>], raised |-> "ValueError: task already worked"]
    ELSE [grid |-> grid_put(g, b, emp.id, task.id), raised |-> "none"]

\* Schedule.assign: the grid after the call and the error raised ("none": returned)
assign(g, b, emp, task) ==
    IF ~(0 <= b /\ b < TOTAL_BLOCKS)
    THEN [grid |-> g, raised |-> "ValueError: block out of range"]
    ELSE IF ~is_available(emp, b)
    THEN [grid |-> g, raised |-> "ValueError: not on shift"]
    ELSE IF emp.id \in DOMAIN g[b]
    THEN [grid |-> g, raised |-> "ValueError: already assigned"]
    ELSE IF \E emp_id \in DOMAIN g[b] : g[b][emp_id] = task.id
    THEN [grid |-> g, raised |-> "ValueError: task already worked"]
    ELSE [grid |-> grid_put(g, b, emp.id, task.id), raised |-> "none"]

InitAssign ==
    /\ TimeIdle
    /\ employees = MainEmployees /\ tasks = MainTasks
    /\ grid = EmptyGrid
    /\ raised = "none"
    /\ MetricsIdle /\ SolveIdle /\ ValidateIdle

InitGrid ==
    /\ TimeIdle
    /\ employees = DemoEmployees /\ tasks = DemoTasks
    /\ grid = EmptyGrid
    /\ raised = "none"
    /\ MetricsIdle /\ SolveIdle /\ ValidateIdle

\* the call schedule.assign(b, employees[e], tasks[t])
AssignCall(b, e, t) ==
    /\ mpc = "idle"
    /\ LET r == assign(grid, b, employees[e], tasks[t])
       IN  /\ raised' = r.raised
           /\ grid' = r.grid
    /\ UNCHANGED <<timeVars, dataVars, metVars, solveVars, valVars>>

\* a caller assigns one employee to one task at one block
Assign ==
    \E b \in BlockInputs, e \in DOMAIN employees, t \in DOMAIN tasks : AssignCall(b, e, t)

-----------------------------------------------------------------------------
(* Schedule.calculate_metrics: src/model.py 129-193 *)

idle_cost == 200      \* 0.2
pen == 500            \* 0.5

Max(a, b) == IF a >= b THEN a ELSE b

Ids(list) == {list[i].id : i \in DOMAIN list}

\* self.grid[b].get(emp.id)
grid_get(g, b, emp_id) == IF emp_id \in DOMAIN g[b] THEN g[b][emp_id] ELSE NoneId

\* the sweep state calculate_metrics carries from block to block
SweepState == [consecutive_blocks |-> consecutive_blocks,
               last_task_id |-> last_task_id,
               metrics |-> metrics,
               switch_charges |-> switch_charges]

\* d[k] += v
add_to(d, k, v) == [d EXCEPT ![k] = @ + v]

\* a charge that misses the total
charge_employee_only(m, emp_id, cost) ==
    [m EXCEPT !.employee_costs = add_to(@, emp_id, cost)]

\* the charge of lines 161-162, 179-180 and 190-191: to the employee and to the total
charge(m, emp_id, cost) ==
    [m EXCEPT !.employee_costs = add_to(@, emp_id, cost), !.total_cost = @ + cost]

\* the loop body with a switch test that ignores last_task_id being None
sweep_block_no_reset(g, emp, b, st) ==
    LET task_id == grid_get(g, b, emp.id)
    IN  IF ~is_available(emp, b)
        THEN [st EXCEPT !.consecutive_blocks = 0]
        ELSE IF task_id # NoneId
        THEN LET cb == st.consecutive_blocks + 1
                 switch == st.last_task_id # NoneId /\ task_id # st.last_task_id
                 m1 == IF switch THEN charge(st.metrics, emp.id, emp.switch_cost)
                       ELSE st.metrics
                 fatigue_factor == Max(100, 1000 - (emp.fatigue_rate * cb))
                 effective_speed == emp.base_speed * fatigue_factor
                 m2 == [m1 EXCEPT !.task_progress = add_to(@, task_id, effective_speed)]
                 m3 == IF emp.ideal_tasks # {} /\ task_id \notin emp.ideal_tasks
                       THEN charge(m2, emp.id, pen)
                       ELSE m2
             IN  [consecutive_blocks |-> cb,
                  last_task_id |-> task_id,
                  metrics |-> m3,
                  switch_charges |-> IF switch THEN add_to(st.switch_charges, emp.id, 1)
                                     ELSE st.switch_charges]
        ELSE [st EXCEPT !.consecutive_blocks = 0,
                        !.metrics = charge(st.metrics, emp.id, idle_cost)]

\* the loop body with last_task_id set before the switch test, which then
\* never finds a change of task
sweep_block_no_switch(g, emp, b, st) ==
    LET task_id == grid_get(g, b, emp.id)
    IN  IF ~is_available(emp, b)
        THEN [st EXCEPT !.consecutive_blocks = 0, !.last_task_id = NoneId]
        ELSE IF task_id # NoneId
        THEN LET cb == st.consecutive_blocks + 1
                 fatigue_factor == Max(100, 1000 - (emp.fatigue_rate * cb))
                 effective_speed == emp.base_speed * fatigue_factor
                 m2 == [st.metrics EXCEPT !.task_progress = add_to(@, task_id, effective_speed)]
                 m3 == IF emp.ideal_tasks # {} /\ task_id \notin emp.ideal_tasks
                       THEN charge(m2, emp.id, pen)
                       ELSE m2
             IN  [consecutive_blocks |-> cb,
                  last_task_id |-> task_id,
                  metrics |-> m3,
                  switch_charges |-> st.switch_charges]
        ELSE [st EXCEPT !.consecutive_blocks = 0,
                        !.last_task_id = NoneId,
                        !.metrics = charge(st.metrics, emp.id, idle_cost)]

\* the body of the loop over blocks, lines 141-191, for employee emp at block b
sweep_block(g, emp, b, st) ==
    LET task_id == grid_get(g, b, emp.id)
        on_shift == is_available(emp, b)
    IN  IF ~on_shift
        THEN [st EXCEPT !.consecutive_blocks = 0, !.last_task_id = NoneId]
        ELSE IF task_id # NoneId
        THEN LET cb == st.consecutive_blocks + 1
                 switch == st.last_task_id # NoneId /\ task_id # st.last_task_id
                 m1 == IF switch THEN charge(st.metrics, emp.id, emp.switch_cost)
                       ELSE st.metrics
                 fatigue_factor == Max(100, 1000 - (emp.fatigue_rate * cb))
                 effective_speed == emp.base_speed * fatigue_factor
                 m2 == [m1 EXCEPT !.task_progress = add_to(@, task_id, effective_speed)]
                 m3 == IF emp.ideal_tasks # {} /\ task_id \notin emp.ideal_tasks
                       THEN charge(m2, emp.id, pen)
                       ELSE m2
             IN  [consecutive_blocks |-> cb,
                  last_task_id |-> task_id,
                  metrics |-> m3,
                  switch_charges |-> IF switch THEN add_to(st.switch_charges, emp.id, 1)
                                     ELSE st.switch_charges]
        ELSE [st EXCEPT !.consecutive_blocks = 0,
                        !.last_task_id = NoneId,
                        !.metrics = charge(st.metrics, emp.id, idle_cost)]

\* lines 130-138: fresh metrics with an entry per task and per employee, and the
\* first employee's sweep set up; with no employee the loop body never runs
CalculateMetrics ==
    /\ mpc = "idle"
    /\ metrics' = [total_cost |-> 0,
                   task_progress |-> [id \in Ids(tasks) |-> 0],
                   employee_costs |-> [id \in Ids(employees) |-> 0]]
    /\ switch_charges' = [id \in Ids(employees) |-> 0]
    /\ consecutive_blocks' = 0 /\ last_task_id' = NoneId
    /\ m_b' = 0
    /\ IF Len(employees) > 0
       THEN m_e' = 1 /\ mpc' = "sweep"
       ELSE m_e' = 0 /\ mpc' = "done"
    /\ raised' = "none"
    /\ UNCHANGED <<timeVars, dataVars, grid, solveVars, valVars>>

\* one iteration of the loop over blocks; after the last block the loop over
\* employees moves on (lines 137-138) or the metrics are returned
SweepBlock ==
    /\ mpc = "sweep"
    /\ LET st == sweep_block(grid, employees[m_e], m_b, SweepState)
       IN  /\ metrics' = st.metrics
           /\ switch_charges' = st.switch_charges
           /\ IF m_b + 1 < TOTAL_BLOCKS
              THEN /\ m_b' = m_b + 1 /\ m_e' = m_e /\ mpc' = mpc
                   /\ consecutive_blocks' = st.consecutive_blocks
                   /\ last_task_id' = st.last_task_id
              ELSE IF m_e < Len(employees)
              THEN /\ m_b' = 0 /\ m_e' = m_e + 1 /\ mpc' = mpc
                   /\ consecutive_blocks' = 0
                   /\ last_task_id' = NoneId
              ELSE /\ m_b' = TOTAL_BLOCKS /\ m_e' = m_e /\ mpc' = "done"
                   /\ consecutive_blocks' = st.consecutive_blocks
                   /\ last_task_id' = st.last_task_id
    /\ UNCHANGED <<timeVars, dataVars, grid, raised, solveVars, valVars>>

RECURSIVE sweep_blocks(_, _, _, _, _)
\* the loop over the blocks lo..hi-1 for one employee, from sweep state st:
\* the first half of the blocks, then the second half from the state the
\* first half has left (a count is never negative: the test only orders the
\* evaluation)
sweep_blocks(g, emp, lo, hi, st) ==
    IF hi <= lo THEN st
    ELSE IF hi = lo + 1 THEN sweep_block(g, emp, lo, st)
    ELSE LET mid == (lo + hi) \div 2
             half == sweep_blocks(g, emp, lo, mid, st)
         IN  IF half.consecutive_blocks >= 0
             THEN sweep_blocks(g, emp, mid, hi, half)
             ELSE half

RECURSIVE sweep_employees(_, _, _, _)
\* the loop over the first k employees, from fresh metrics m0
sweep_employees(g, emps, k, m0) ==
    IF k = 0
    THEN [consecutive_blocks |-> 0, last_task_id |-> NoneId, metrics |-> m0,
          switch_charges |-> [id \in Ids(emps) |-> 0]]
    ELSE LET before == sweep_employees(g, emps, k - 1, m0)
         IN  IF before.consecutive_blocks >= 0
             THEN sweep_blocks(g, emps[k], 0, TOTAL_BLOCKS,
                               [before EXCEPT !.consecutive_blocks = 0,
                                              !.last_task_id = NoneId])
             ELSE before

\* calculate_metrics(employees, tasks) on grid g, as one function
calculate_metrics(g, emps, tks) ==
    sweep_employees(g, emps, Len(emps),
                    [total_cost |-> 0,
                     task_progress |-> [id \in Ids(tks) |-> 0],
                     employee_costs |-> [id \in Ids(emps) |-> 0]]).metrics

Init == InitGrid

Next == Assign \/ CalculateMetrics \/ SweepBlock

Spec == Init /\ [][Next]_vars

\* the grid under assign calls alone
NextAssign == Assign

SpecAssign == InitAssign /\ [][NextAssign]_vars

-----------------------------------------------------------------------------
(* Schedule.validate_overall: src/model.py 195-211 *)

\* metrics.task_progress.get(task.id, 0)
task_progress_get(m, task_id) ==
    IF task_id \in DOMAIN m.task_progress THEN m.task_progress[task_id] ELSE 0

\* progress < task.effort_required, the progress in millionths and the effort
\* in thousandths
incomplete(m, task) == task_progress_get(m, task.id) < task.effort_required * 1000

\* the entry appended for a task; the message of the source also carries the
\* progress and the effort
incomplete_error(task) == "Task " \o task.id \o " incomplete"

RECURSIVE validate_tasks_le(_, _)
\* the loop with <= for <
validate_tasks_le(list, m) ==
    IF list = <<>> THEN <<>>
    ELSE (IF task_progress_get(m, Head(list).id) <= Head(list).effort_required * 1000
          THEN <<incomplete_error(Head(list))>> ELSE <<>>)
         \o validate_tasks_le(Tail(list), m)

RECURSIVE validate_tasks(_, _)
\* the loop over tasks, lines 203-206
validate_tasks(list, m) ==
    IF list = <<>> THEN <<>>
    ELSE (IF incomplete(m, Head(list)) THEN <<incomplete_error(Head(list))>> ELSE <<>>)
         \o validate_tasks(Tail(list), m)

\* validate_overall(tasks, metrics); m_arg = "None" is the call without metrics,
\* and a ScheduleMetrics object is always truthy
validate_overall(list, m_arg, m) ==
    IF m_arg = "None" THEN <<"Metrics not calculated properly.">>
    ELSE validate_tasks(list, m)

\* the progress values of the metrics handed to validate_overall, in millionths
ProgressValues == {0, 3999999, 4000000, 6000000, 6375000}

\* the task lists handed to validate_overall; T1 has no entry in the metrics
ValidateTaskLists ==
    {<<>>, <<T_HARD>>, <<T_HARD, T_EASY>>, <<T_EASY, T_HARD>>,
     <<T_HARD, T_EASY, T1>>, <<T_EASY, T_EASY>>}

\* a caller's arguments: a task list and either no metrics or the metrics of
\* a calculate_metrics(employees, DemoTasks)
InitValidate ==
    /\ TimeIdle /\ SolveIdle
    /\ employees = <<>> /\ grid = EmptyGrid
    /\ raised = "none"
    /\ tasks \in ValidateTaskLists
    /\ mpc = "idle" /\ m_e = 0 /\ m_b = 0
    /\ consecutive_blocks = 0 /\ last_task_id = NoneId
    /\ switch_charges = <<>>
    /\ metrics_arg \in {"None", "metrics"}
    /\ IF metrics_arg = "None"
       THEN metrics = EmptyMetrics
       ELSE \E tp \in [Ids(DemoTasks) -> ProgressValues] :
                metrics = [total_cost |-> 0, task_progress |-> tp, employee_costs |-> <<>>]
    /\ errors = <<>> /\ vpc = "args"

ValidateOverall ==
    /\ vpc = "args"
    /\ errors' = validate_overall(tasks, metrics_arg, metrics)
    /\ vpc' = "returned"
    /\ UNCHANGED <<timeVars, dataVars, grid, raised, metVars, solveVars, metrics_arg>>

NextValidate == ValidateOverall

SpecValidate == InitValidate /\ [][NextValidate]_vars

-----------------------------------------------------------------------------
(* TaskOptimizer.solve: src/optimizer.py 16-162 *)

MaxSolveBlock == 3   \* the shifts of the solver runs lie in 0..MaxSolveBlock

\* the employees of the solver runs, as load_employees_for_day builds them
\* (src/persistence/loader.py 92-110): no ideal tasks, the profile's switch cost
Ana ==
    [id |-> "Ana", shifts |-> <<Shift(0, MaxSolveBlock)>>, skills |-> {"caixa"},
     base_speed |-> 1000, switch_cost |-> 2000, fatigue_rate |-> 0,
     ideal_tasks |-> {}]

Bob ==
    [id |-> "Bob", shifts |-> <<Shift(1, MaxSolveBlock + 1)>>, skills |-> {},
     base_speed |-> 1100, switch_cost |-> 500, fatigue_rate |-> 0,
     ideal_tasks |-> {}]

RECURSIVE SumSeq(_)
SumSeq(q) == IF q = <<>> THEN 0 ELSE q[1] + SumSeq(Tail(q))

\* a fixed task as load_tasks builds it (loader.py 138-151): its effort is the
\* sum of its demand curve
FixedTask(curve, skill) ==
    [id |-> "caixa", effort_required |-> 1000 * SumSeq(curve), skill_needed |-> skill,
     demand_curve |-> Curve(curve)]

\* a flexible task as load_tasks builds it (loader.py 152-170)
FlexTask(effort, skill) ==
    [id |-> "reposicao", effort_required |-> effort, skill_needed |-> skill,
     demand_curve |-> NoCurve]

DemandCurves == {<<1, 1, 0, 1>>, <<0, 1, 1>>, <<2, 1>>}
FlexEfforts == {500, 2000, 2700, (MaxSolveBlock + 2) * 1000}
FixedSkills == {"", "caixa"}
FlexSkills == {"", "frio"}

FixedTasks == {FixedTask(c, k) : c \in DemandCurves, k \in FixedSkills}
FlexTasks == {FlexTask(f, k) : f \in FlexEfforts, k \in FlexSkills}

TaskLists ==
    {<<t>> : t \in FixedTasks \cup FlexTasks}
        \cup {<<t, u>> : t \in FixedTasks, u \in FlexTasks}

\* demand_curve[s], zero past its end
demand(task, s) ==
    IF s < Len(task.demand_curve.curve) THEN task.demand_curve.curve[s + 1] ELSE 0

E_range == DOMAIN employees
T_range == DOMAIN tasks
S_range == 0..(TOTAL_BLOCKS - 1)

\* A solver assignment is a sequence of TOTAL_BLOCKS slices, one per block;
\* slice s maps <<e, t>> to the value of x[(e, t, s)].
Slices == [E_range \X T_range -> {0, 1}]

X(sol, e, t, s) == sol[s + 1][<<e, t>>]

\* A with the block off by one
availability_off_by_one(sl, s) ==
    \A e \in E_range :
        ~is_available(employees[e], s + 1) => \A t \in T_range : sl[<<e, t>>] = 0

\* A. Availability (lines 32-38), at block s
availability(sl, s) ==
    \A e \in E_range :
        ~is_available(employees[e], s) => \A t \in T_range : sl[<<e, t>>] = 0

\* B. Employee exclusivity (lines 41-43), at one block
employee_exclusivity(sl) ==
    \A e \in E_range : Cardinality({t \in T_range : sl[<<e, t>>] = 1}) <= 1

\* C for the fixed tasks alone
task_exclusivity_fixed_only(sl) ==
    \A t \in T_range :
        is_fixed(tasks[t]) => Cardinality({e \in E_range : sl[<<e, t>>] = 1}) <= 1

\* C. Task exclusivity (lines 46-48), at one block
task_exclusivity(sl) ==
    \A t \in T_range : Cardinality({e \in E_range : sl[<<e, t>>] = 1}) <= 1

\* int(task_obj.effort_required), for an effort >= 0 in thousandths
required_blocks(task) == task.effort_required \div 1000

\* D. Task duration (lines 61-68)
task_duration(sol) ==
    \A t \in T_range :
        Cardinality({es \in E_range \X S_range : X(sol, es[1], t, es[2]) = 1})
            = required_blocks(tasks[t])

\* the slices constraints A, B and C allow at block s
BlockChoices(s) ==
    {sl \in Slices : availability(sl, s) /\ employee_exclusivity(sl) /\ task_exclusivity(sl)}

RECURSIVE Prefixes(_)
\* the assignments of blocks 0..n-1 that satisfy A, B and C
Prefixes(n) ==
    IF n = 0 THEN {<<>>}
    ELSE {Append(p, sl) : p \in Prefixes(n - 1), sl \in BlockChoices(n - 1)}

RECURSIVE Suffixes(_)
\* the assignments of blocks n..TOTAL_BLOCKS-1 that satisfy A, B and C
Suffixes(n) ==
    IF n >= TOTAL_BLOCKS THEN {<<>>}
    ELSE {<<sl>> \o q : sl \in BlockChoices(n), q \in Suffixes(n + 1)}

\* the assignments of all blocks that satisfy A, B and C, put together from
\* the blocks before and after the end of the last shift
Candidates ==
    LET k == IF LastShiftEnd < TOTAL_BLOCKS THEN LastShiftEnd ELSE TOTAL_BLOCKS
    IN  {p \o q : p \in Prefixes(k), q \in Suffixes(k)}

\* the assignments that satisfy every hard constraint
Feasible == {sol \in Candidates : task_duration(sol)}

\* A. preference cost (lines 78-92): 5 per block on a task that is not ideal
preference_cost(sol) ==
    5 * Cardinality({ets \in E_range \X T_range \X S_range :
            /\ X(sol, ets[1], ets[2], ets[3]) = 1
            /\ employees[ets[1]].ideal_tasks # {}
            /\ tasks[ets[2]].id \notin employees[ets[1]].ideal_tasks})

\* int(emp_obj.switch_cost * 100)
start_weight(emp) == emp.switch_cost \div 10

\* B. switching cost (lines 106-130): minimisation leaves a start variable
\* with a positive weight at 1 only where x[s] = 1 and x[s-1] = 0
switching_cost(sol) ==
    LET starts(e) == {ts \in T_range \X (1..(TOTAL_BLOCKS - 1)) :
                         X(sol, e, ts[1], ts[2]) = 1 /\ X(sol, e, ts[1], ts[2] - 1) = 0}
        cost(e) == IF employees[e].switch_cost <= 0 THEN 0
                   ELSE start_weight(employees[e]) * Cardinality(starts(e))
        RECURSIVE total(_)
        total(e) == IF e = 0 THEN 0 ELSE cost(e) + total(e - 1)
    IN  total(Len(employees))

objective(sol) == preference_cost(sol) + switching_cost(sol)

\* the start variables with the loop over blocks starting at 2
start_vars_from_block_2 ==
    {ets \in E_range \X T_range \X (2..(TOTAL_BLOCKS - 1)) :
        employees[ets[1]].switch_cost > 0}

\* the start variables the model creates (lines 106-121): one per task and
\* block s >= 1, for the employees with switch_cost > 0
start_vars ==
    {ets \in E_range \X T_range \X (1..(TOTAL_BLOCKS - 1)) :
        employees[ets[1]].switch_cost > 0}

\* start_var >= x[(e, t, s)] - x[(e, t, s-1)] (line 126), for the start
\* variables at 1 being those of the set st
start_constraint(sol, st) ==
    \A ets \in start_vars :
        (IF ets \in st THEN 1 ELSE 0)
            >= X(sol, ets[1], ets[2], ets[3]) - X(sol, ets[1], ets[2], ets[3] - 1)

\* the start variables the constraint of line 126 forces to 1
forced_starts(sol) ==
    {ets \in start_vars :
        X(sol, ets[1], ets[2], ets[3]) - X(sol, ets[1], ets[2], ets[3] - 1) >= 1}

\* the assignments of F that minimise the objective: those CP-SAT may return
\* with status OPTIMAL
Optimal(F) ==
    LET costs == [sol \in F |-> objective(sol)]
        best == CHOOSE v \in {costs[sol] : sol \in F} : \A sol \in F : v <= costs[sol]
    IN  {sol \in F : costs[sol] = best}

\* _build_schedule_from_solution (lines 147-162): sched.grid[s][emp.id] = task.id
\* for every x[(e, t, s)] = 1, written in the order of the loops over e and t
build_schedule_from_solution(sol) ==
    [s \in S_range |->
        LET hits == {et \in E_range \X T_range : X(sol, et[1], et[2], s) = 1}
            ids == {employees[et[1]].id : et \in hits}
        IN  [id \in ids |->
                LET mine == {et \in hits : employees[et[1]].id = id}
                    last == CHOOSE et \in mine : \A o \in mine :
                                o[1] < et[1] \/ (o[1] = et[1] /\ o[2] <= et[2])
                IN  tasks[last[2]].id]]

InitSolve ==
    /\ TimeIdle /\ MetricsIdle
    /\ employees = <<Ana, Bob>>
    /\ tasks \in TaskLists
    /\ grid = EmptyGrid
    /\ raised = "none"
    /\ spc = "built" /\ status = "" /\ x = <<>> /\ start = {}
    /\ ValidateIdle

\* solve(): the model is handed to CP-SAT, which has no time limit and ends
\* OPTIMAL with one of the optimal assignments, or INFEASIBLE; an assignment
\* is decoded into a Schedule, and without one solve returns None
Solve ==
    /\ spc = "built"
    /\ LET F == Feasible
       IN  IF F = {}
           THEN /\ status' = "INFEASIBLE"
                /\ x' = <<>>
                /\ start' = {}
                /\ grid' = grid
                /\ spc' = "returned None"
           ELSE \E sol \in Optimal(F) :
                /\ status' = "OPTIMAL"
                /\ x' = sol
                /\ start' = forced_starts(sol)
                /\ grid' = build_schedule_from_solution(sol)
                /\ spc' = "returned schedule"
    /\ UNCHANGED <<timeVars, dataVars, raised, metVars, valVars>>

\* the start variables at blocks within the shifts that nothing forces to 1
free_starts(sol) ==
    {ets \in start_vars \ forced_starts(sol) : ets[3] <= LastShiftEnd}

\* solve() stopped with an assignment not proved optimal, which line 139
\* accepts as well: any assignment of x and of the start variables that
\* satisfies the constraints; beyond the forced start variables at most one
\* is at 1
SolveFeasible ==
    /\ spc = "built"
    /\ \E sol \in Feasible :
         \E st \in {forced_starts(sol)}
                    \cup {forced_starts(sol) \cup {f} : f \in free_starts(sol)} :
            /\ start_constraint(sol, st)
            /\ status' = "FEASIBLE"
            /\ x' = sol
            /\ start' = st
            /\ grid' = build_schedule_from_solution(sol)
            /\ spc' = "returned schedule"
    /\ UNCHANGED <<timeVars, dataVars, raised, metVars, valVars>>

NextSolve == Solve

NextFeasible == SolveFeasible

SpecFeasible == InitSolve /\ [][NextFeasible]_vars

SpecSolve == InitSolve /\ [][NextSolve]_vars

-----------------------------------------------------------------------------
(* Properties of the time-block arithmetic, under SpecTime *)

WallClock == hour \in 0..23 /\ in_window(hour)

\* C8 as stated: for every wall-clock (h, m) in the window,
\* block_to_time(time_to_block(h, m)) gives back h:m.
C8_RoundTripExact ==
    (tpc = "str" /\ WallClock) => time_str = FormatTime(hour, minute)

\* C8, amended: for every wall-clock (h, m) in the window the round trip gives
\* back h and the minute rounded down to the start of its 15-minute block; it
\* gives back h:m itself exactly when m is a multiple of 15.
C8_RoundTripToBlockStart ==
    (tpc = "str" /\ WallClock) =>
        /\ time_str = FormatTime(hour, 15 * (minute \div 15))
        /\ (time_str = FormatTime(hour, minute)) <=> (minute % 15 = 0)

\* a time after midnight has gone through the round trip
C8_Witness ==
    tpc = "str" /\ hour = 1 /\ minute = 50 /\ block_idx = 79 /\ time_str = "01:45"

\* C9: time_to_block raises an out-of-range error whenever the effective hour is
\* outside [START_HOUR, PHYSICAL_END_HOUR), and a block it returns is in
\* [0, TOTAL_BLOCKS).
C9_OutOfWindowRaises ==
    (tpc # "args") =>
        /\ ~in_window(hour) => raised # "none"
        /\ tpc = "block" => (0 <= block_idx /\ block_idx < TOTAL_BLOCKS)

-----------------------------------------------------------------------------
(* Properties of Schedule.assign, under Spec *)

InRange(b) == 0 <= b /\ b < TOTAL_BLOCKS

EmployeeOf(id) == CHOOSE i \in DOMAIN employees : employees[i].id = id

C2_BookedEmployeeRejected ==
    [][\A b \in BlockInputs, e \in DOMAIN employees, t \in DOMAIN tasks :
         (InRange(b) /\ employees[e].id \in DOMAIN grid[b] /\ AssignCall(b, e, t)) =>
             /\ raised' = "ValueError: already assigned"
             /\ grid' = grid]_vars

\* a call has been rejected because the employee was booked
C2_Witness ==
    /\ raised = "ValueError: already assigned"
    /\ \E b \in DOMAIN grid : DOMAIN grid[b] # {}

\* the four reasons assign has to reject a call
Rejected(b, emp, task) ==
    IF ~InRange(b) THEN TRUE
    ELSE \/ ~is_available(emp, b)
         \/ emp.id \in DOMAIN grid[b]
         \/ \E id \in DOMAIN grid[b] : grid[b][id] = task.id

\* C3: a rejected assign leaves the whole grid unchanged; a successful one sets
\* grid[block][employee.id] and changes no other cell.
C3_AssignFrame ==
    [][\A b \in BlockInputs, e \in DOMAIN employees, t \in DOMAIN tasks :
         AssignCall(b, e, t) =>
             IF Rejected(b, employees[e], tasks[t])
             THEN raised' # "none" /\ grid' = grid
             ELSE /\ raised' = "none"
                  /\ grid_get(grid', b, employees[e].id) = tasks[t].id
                  /\ \A b2 \in DOMAIN grid : b2 # b => grid'[b2] = grid[b2]
                  /\ \A id \in Ids(employees) :
                       id # employees[e].id =>
                           grid_get(grid', b, id) = grid_get(grid, b, id)]_vars

\* a successful assign has acted on a grid that held other entries
C3_Witness ==
    /\ raised = "none" /\ mpc = "idle"
    /\ Cardinality({b \in DOMAIN grid : DOMAIN grid[b] # {}}) >= 2

-----------------------------------------------------------------------------
(* Properties of calculate_metrics, under Spec *)

Assigned(emp, b) == grid_get(grid, b, emp.id) # NoneId /\ is_available(emp, b)

\* the blocks at which emp works a task
WorkedBlocks(emp) == {b \in DOMAIN grid : Assigned(emp, b)}

RECURSIVE ClaimedRunProgress(_, _)
\* base_speed * max(0.1, 1 - fatigue_rate * (k - 1)), summed over k = 1..n
ClaimedRunProgress(emp, n) ==
    IF n = 0 THEN 0
    ELSE ClaimedRunProgress(emp, n - 1)
         + emp.base_speed * Max(100, 1000 - emp.fatigue_rate * (n - 1))

\* emp works task_id, and nothing else, in one run of consecutive blocks, and
\* nobody else works task_id
SingleRun(emp, task_id) ==
    LET W == WorkedBlocks(emp)
    IN  /\ W # {}
        /\ \A b \in W : grid[b][emp.id] = task_id
        /\ \A b \in DOMAIN grid : (\E lo \in W, hi \in W : lo <= b /\ b <= hi) => b \in W
        /\ \A b \in DOMAIN grid : \A id \in DOMAIN grid[b] :
             grid[b][id] = task_id => id = emp.id

\* C6: an employee on one task for n consecutive blocks works the k-th block at
\* base_speed * max(0.1, 1 - fatigue_rate * (k - 1)): the first block at full
\* speed, and 6.75 in all for base_speed 1.5, fatigue_rate 0.05 and n = 5.
C6_FirstBlockAtFullSpeed ==
    mpc = "done" =>
        \A i \in DOMAIN employees, t \in DOMAIN tasks :
            SingleRun(employees[i], tasks[t].id) =>
                metrics.task_progress[tasks[t].id] =
                    ClaimedRunProgress(employees[i], Cardinality(WorkedBlocks(employees[i])))

\* the blocks b below `upto` at which emp works a task other than the one it
\* works at b - 1, both blocks on shift
SwitchBlocks(emp, upto) ==
    {b \in 1..(TOTAL_BLOCKS - 1) :
        /\ b < upto
        /\ Assigned(emp, b) /\ Assigned(emp, b - 1)
        /\ grid[b][emp.id] # grid[b - 1][emp.id]}

\* the blocks of employee number i the sweep has gone through
Swept(i) ==
    IF mpc = "idle" \/ i > m_e THEN 0
    ELSE IF i < m_e \/ mpc = "done" THEN TOTAL_BLOCKS
    ELSE m_b

\* C7: switch_cost is charged once for each block at which the employee works a
\* task other than the one worked at the block before, both on shift, and at no
\* other block: the charges so far are as many as those blocks swept so far.
C7_SwitchOncePerRun ==
    mpc # "idle" =>
        \A i \in DOMAIN employees :
            switch_charges[employees[i].id] =
                Cardinality(SwitchBlocks(employees[i], Swept(i)))

\* a day with two switches, the second run two blocks long, after an idle block
C7_Witness ==
    /\ mpc = "done"
    /\ grid_get(grid, 1, "E_FAST") = NoneId
    /\ grid_get(grid, 2, "E_FAST") = "T_HARD"
    /\ grid_get(grid, 3, "E_FAST") = "T_EASY"
    /\ grid_get(grid, 4, "E_FAST") = "T_EASY"
    /\ grid_get(grid, 5, "E_FAST") = "T_HARD"
    /\ switch_charges["E_FAST"] = 2

-----------------------------------------------------------------------------
(* Properties of TaskOptimizer.solve, under SpecSolve *)

Returned == spc = "returned schedule"

\* the employees recorded on task_id at block s
HeadCount(task_id, s) == Cardinality({id \in DOMAIN grid[s] : grid[s][id] = task_id})

\* C4: in every schedule solve returns, a fixed task has exactly
\* demand_curve[s] employees at each block s, and none where the demand is 0.
C4_DemandMetPerBlock ==
    Returned =>
        \A t \in T_range :
            is_fixed(tasks[t]) =>
                \A s \in S_range : HeadCount(tasks[t].id, s) = demand(tasks[t], s)

\* a task that needs work and a skill no employee holds
Unstaffable(task) ==
    /\ task.effort_required > 0
    /\ \A e \in E_range : ~has_skill(employees[e], task.skill_needed)

TaskById(id) == tasks[CHOOSE t \in T_range : tasks[t].id = id]

\* C5: with a task that needs work and a skill no employee holds, solve returns
\* None; and no returned schedule has an employee on a task whose skill the
\* employee lacks.
C5_NoSkillNoSchedule ==
    /\ (spc # "built" /\ \E t \in T_range : Unstaffable(tasks[t])) =>
           spc = "returned None"
    /\ Returned =>
           \A s \in S_range : \A id \in DOMAIN grid[s] :
               has_skill(employees[EmployeeOf(id)], TaskById(grid[s][id]).skill_needed)

\* C10: a returned schedule records an employee at block s only on shift, and
\* holds employee.id -> task.id at block s exactly where x[e, t, s] = 1.
C10_DecodedGridIsX ==
    Returned =>
        /\ \A s \in S_range : \A id \in DOMAIN grid[s] :
               is_available(employees[EmployeeOf(id)], s)
        /\ \A e \in E_range, t \in T_range, s \in S_range :
               (grid_get(grid, s, employees[e].id) = tasks[t].id) <=> (X(x, e, t, s) = 1)

\* a returned schedule for two tasks in which both employees work, with a block
\* of the shifts left empty
C10_Witness ==
    /\ Returned /\ Len(tasks) = 2
    /\ \A e \in E_range : \E s \in S_range : employees[e].id \in DOMAIN grid[s]
    /\ \E s \in 0..MaxSolveBlock : grid[s] = <<>>

\* the blocks at which some employee is on shift
CoveredBlocks == {s \in S_range : \E e \in E_range : is_available(employees[e], s)}

\* the (employee, block) pairs with the employee on shift
OnShiftPairs == {es \in E_range \X S_range : is_available(employees[es[1]], es[2])}

\* a lone flexible task that needs more blocks than are covered by a shift, and
\* no more than there are on-shift employee-blocks
NeedsSharing ==
    /\ Len(tasks) = 1 /\ ~is_fixed(tasks[1])
    /\ required_blocks(tasks[1]) > Cardinality(CoveredBlocks)
    /\ required_blocks(tasks[1]) <= Cardinality(OnShiftPairs)

\* the employees x puts on task t at block s
Workers(t, s) == {e \in E_range : X(x, e, t, s) = 1}

-----------------------------------------------------------------------------
(* Properties of validate_overall, under SpecValidate *)

\* the positions of the task list whose task is short of its effort
ShortTasks == {i \in DOMAIN tasks : task_progress_get(metrics, tasks[i].id)
                                        < tasks[i].effort_required * 1000}

\* C12: with metrics, validate_overall returns one failure entry for each task
\* whose task_progress is below its effort_required and none for any other
\* task, so the result is empty iff every task reached its effort; without
\* metrics the result is a failure, never empty.
C12_ValidateOverall ==
    vpc = "returned" =>
        IF metrics_arg = "None"
        THEN errors # <<>>
        ELSE /\ Len(errors) = Cardinality(ShortTasks)
             /\ \A i \in DOMAIN tasks :
                    Cardinality({j \in DOMAIN errors : errors[j] = incomplete_error(tasks[i])})
                        = Cardinality({k \in ShortTasks : tasks[k].id = tasks[i].id})
             /\ (errors = <<>>) <=>
                    \A i \in DOMAIN tasks :
                        task_progress_get(metrics, tasks[i].id) >= tasks[i].effort_required * 1000

\* both tasks were validated, one exactly at its effort and one just short of it
C12_Witness ==
    /\ vpc = "returned" /\ metrics_arg = "metrics"
    /\ tasks = <<T_HARD, T_EASY>>
    /\ metrics.task_progress["T_HARD"] = 6000000
    /\ metrics.task_progress["T_EASY"] = 3999999
    /\ errors = <<"Task T_EASY incomplete">>

-----------------------------------------------------------------------------
(* Order dependence of calculate_metrics, under Spec *)

\* E_FAST on T_HARD for two blocks and then on T_EASY for two blocks
GroupedGrid ==
    [b \in 0..(TOTAL_BLOCKS - 1) |->
        IF b \in {1, 2} THEN ("E_FAST" :> "T_HARD")
        ELSE IF b \in {3, 4} THEN ("E_FAST" :> "T_EASY")
        ELSE <<>>]

\* the same four blocks with the two tasks taking turns
AlternatingGrid ==
    [b \in 0..(TOTAL_BLOCKS - 1) |->
        IF b \in {1, 3} THEN ("E_FAST" :> "T_HARD")
        ELSE IF b \in {2, 4} THEN ("E_FAST" :> "T_EASY")
        ELSE <<>>]

\* the number of on-shift blocks emp has on task_id (NoneId: idle) in grid g
BlockCount(g, emp, task_id) ==
    Cardinality({b \in DOMAIN g : is_available(emp, b) /\ grid_get(g, b, emp.id) = task_id})

\* every employee has as many blocks on each task, and as many idle, in g1 as in g2
SameCounts(g1, g2) ==
    \A i \in DOMAIN employees : \A id \in Ids(tasks) \cup {NoneId} :
        BlockCount(g1, employees[i], id) = BlockCount(g2, employees[i], id)

\* C13: calculate_metrics is order-dependent: the grid with the tasks taking
\* turns has the block counts of the grouped grid, employee by employee and
\* task by task, and another total_cost.
C13_OrderDependent ==
    mpc = "done" =>
        /\ grid = GroupedGrid =>
               metrics.total_cost = calculate_metrics(GroupedGrid, employees, tasks).total_cost
        /\ grid = AlternatingGrid =>
               /\ SameCounts(grid, GroupedGrid)
               /\ metrics.total_cost # calculate_metrics(GroupedGrid, employees, tasks).total_cost

\* the metrics of the grid with the tasks taking turns: three switches, where
\* the grouped grid has one
C13_Witness ==
    /\ mpc = "done" /\ grid = AlternatingGrid
    /\ switch_charges["E_FAST"] = 3
    /\ calculate_metrics(GroupedGrid, employees, tasks).total_cost = 1600
    /\ metrics.total_cost = 3600

-----------------------------------------------------------------------------
(* The block count of a flexible task, under SpecSolve *)

\* round(effort), for an effort >= 0 in thousandths: to the nearest integer,
\* a tie to the even one
round_effort(effort) ==
    LET q == effort \div 1000
        r == effort % 1000
    IN  IF r < 500 THEN q
        ELSE IF r > 500 THEN q + 1
        ELSE IF q % 2 = 0 THEN q ELSE q + 1

\* the (employee, block) pairs x assigns to task t
AssignedPairs(t) == {es \in E_range \X S_range : X(x, es[1], t, es[2]) = 1}

\* C14: in every schedule solve returns, the (employee, block) pairs assigned to
\* a flexible task are round(effort_required) in number: 3 for an effort of 2.7.
C14_RoundedBlockCount ==
    Returned =>
        \A t \in T_range :
            ~is_fixed(tasks[t]) =>
                Cardinality(AssignedPairs(t)) = round_effort(tasks[t].effort_required)

-----------------------------------------------------------------------------
(* Gaps in the calculate_metrics sweep, under Spec *)

\* the progress of the first block of a fresh run of emp
FreshBlockProgress(emp) ==
    sweep_block(grid_put(EmptyGrid, emp.shifts[1].start_block, emp.id, tasks[1].id),
                emp, emp.shifts[1].start_block,
                [consecutive_blocks |-> 0, last_task_id |-> NoneId,
                 metrics |-> [total_cost |-> 0,
                              task_progress |-> [id \in Ids(tasks) |-> 0],
                              employee_costs |-> [id \in Ids(employees) |-> 0]],
                 switch_charges |-> [id \in Ids(employees) |-> 0]]
               ).metrics.task_progress[tasks[1].id]

\* the sweep goes on with the same employee after this block
SameEmployeeNext == m_b + 1 < TOTAL_BLOCKS

\* C15: in the sweep an off-shift block charges nothing and an idle on-shift
\* block charges the idle cost 0.2, to the employee and to the total; both
\* reset consecutive_blocks to 0 and last_task_id to None. The first assigned
\* block after such a block charges no switch_cost, whatever was worked before
\* the gap, and counts as block 1 of a run, with the progress of the first
\* block of a fresh run.
C15_GapResets ==
    [][mpc = "sweep" =>
         LET emp == employees[m_e]
             id == emp.id
             task_id == grid_get(grid, m_b, id)
         IN  /\ ~is_available(emp, m_b) =>
                    /\ consecutive_blocks' = 0 /\ last_task_id' = NoneId
                    /\ metrics' = metrics
             /\ (is_available(emp, m_b) /\ task_id = NoneId) =>
                    /\ consecutive_blocks' = 0 /\ last_task_id' = NoneId
                    /\ metrics'.total_cost = metrics.total_cost + idle_cost
                    /\ metrics'.employee_costs = add_to(metrics.employee_costs, id, idle_cost)
                    /\ metrics'.task_progress = metrics.task_progress
             /\ (m_b >= 1 /\ Assigned(emp, m_b) /\ ~Assigned(emp, m_b - 1)) =>
                    /\ switch_charges' = switch_charges
                    /\ metrics'.total_cost - metrics.total_cost \in {0, pen}
                    /\ SameEmployeeNext => consecutive_blocks' = 1
                    /\ metrics'.task_progress[task_id] - metrics.task_progress[task_id]
                           = FreshBlockProgress(emp)]_vars

\* the sweep is over a day in which E_FAST changed task across an idle block
\* and E_SPEC across the gap between its shifts, and no switch was charged
C15_Witness ==
    /\ mpc = "done"
    /\ grid_get(grid, 1, "E_FAST") = "T_HARD"
    /\ grid_get(grid, 2, "E_FAST") = NoneId
    /\ grid_get(grid, 3, "E_FAST") = "T_EASY"
    /\ grid_get(grid, 1, "E_SPEC") = "T_EASY"
    /\ grid_get(grid, 3, "E_SPEC") = "T_HARD"
    /\ switch_charges = ("E_FAST" :> 0) @@ ("E_SPEC" :> 0)
    /\ metrics.employee_costs["E_SPEC"] = pen

-----------------------------------------------------------------------------
(* The segment-start proxy against the metrics engine, under SpecFeasible *)

\* the switch charges calculate_metrics makes on grid g, per employee id
switch_count(g) ==
    sweep_employees(g, employees, Len(employees),
                    [total_cost |-> 0,
                     task_progress |-> [id \in Ids(tasks) |-> 0],
                     employee_costs |-> [id \in Ids(employees) |-> 0]]).switch_charges

\* the start variables of employee e that are 1
StartsOf(e) == {ets \in start : ets[1] = e}

\* C16: for every assignment of x and of the start variables that satisfies
\* the hard constraints and start[e,t,s] >= x[e,t,s] - x[e,t,s-1], and every
\* employee with switch_cost > 0, the start variables of the employee at 1 are
\* at least as many as the switch charges calculate_metrics makes for the
\* employee on the decoded grid.
C16_StartsBoundSwitches ==
    Returned =>
        \A e \in E_range :
            employees[e].switch_cost > 0 =>
                Cardinality(StartsOf(e)) >= switch_count(grid)[employees[e].id]

\* an assignment in which an employee changes task from one block to the next,
\* and is charged the switch
C16_Witness ==
    /\ Returned /\ status = "FEASIBLE" /\ Len(tasks) = 2
    /\ \E e \in E_range :
         /\ switch_count(grid)[employees[e].id] >= 1
         /\ Cardinality(StartsOf(e)) > switch_count(grid)[employees[e].id]

-----------------------------------------------------------------------------
(* The books of calculate_metrics, under Spec *)

RECURSIVE SumEmployeeCosts(_)
\* employee_costs summed over the first k employees passed in
SumEmployeeCosts(k) ==
    IF k = 0 THEN 0
    ELSE metrics.employee_costs[employees[k].id] + SumEmployeeCosts(k - 1)

\* some employee is recorded on task_id at some block
Recorded(task_id) == \E b \in DOMAIN grid : \E id \in DOMAIN grid[b] : grid[b][id] = task_id

\* C17: at every point of the sweep and in the returned metrics, total_cost is
\* the sum of employee_costs over the employees passed in, every employee and
\* every task passed in has an entry, 0 when nothing accrued, and no cost and
\* no progress is negative.
C17_BooksBalance ==
    mpc \in {"sweep", "done"} =>
        /\ DOMAIN metrics.employee_costs = Ids(employees)
        /\ DOMAIN metrics.task_progress = Ids(tasks)
        /\ metrics.total_cost = SumEmployeeCosts(Len(employees))
        /\ metrics.total_cost >= 0
        /\ \A id \in Ids(employees) : metrics.employee_costs[id] >= 0
        /\ \A id \in Ids(tasks) : metrics.task_progress[id] >= 0
        /\ \A id \in Ids(tasks) : ~Recorded(id) => metrics.task_progress[id] = 0
        /\ \A i \in DOMAIN employees : Swept(i) = 0 => metrics.employee_costs[employees[i].id] = 0

\* returned metrics with a switch, two idle blocks and a preference penalty
\* charged
C17_Witness ==
    /\ mpc = "done"
    /\ switch_charges["E_FAST"] = 1
    /\ metrics.employee_costs["E_FAST"] = E_FAST.switch_cost + idle_cost
    /\ metrics.employee_costs["E_SPEC"] = pen + idle_cost
    /\ metrics.total_cost = E_FAST.switch_cost + pen + 2 * idle_cost
    /\ metrics.task_progress["T_HARD"] > 0

=============================================================================
